---- MODULE Spec2Model ----
(***************************************************************************)
(* Model of acoss/extractors.py: the single-file extractor                 *)
(* compute_features, the list-driven runner                                *)
(* compute_features_from_list_file and the directory orchestrator          *)
(* batch_feature_extractor.                                                *)
(*                                                                         *)
(* Python strings are modelled as sequences of one-character strings, so   *)
(* that str.split, str.replace, os.path.basename and the "%s%s/" format    *)
(* are computed character by character as the interpreter computes them.   *)
(***************************************************************************)
EXTENDS Integers, Sequences, FiniteSets, TLC

\* ------------------------------------------------------------------ bounds
MaxManifest == 2
MaxFeatures == 2
MaxSignal == 1
MaxWorkers == 2

\* ------------------------------------------------------- string primitives
None == <<>>

SetToSeqs(S, n) == UNION {[1..k -> S] : k \in 0..n}

Range(s) == {s[i] : i \in DOMAIN s}

IsPrefixAt(s, old, i) ==
    /\ i + Len(old) - 1 <= Len(s)
    /\ \A k \in 1..Len(old) : s[i + k - 1] = old[k]

EndsWith(s, suf) ==
    /\ Len(suf) <= Len(s)
    /\ IsPrefixAt(s, suf, Len(s) - Len(suf) + 1)

\* str.replace(old, ''): scan left to right, dropping every non-overlapping
\* occurrence of old (an empty old inserts '' between characters: no change)
RECURSIVE ReplaceFrom(_, _, _)
ReplaceFrom(s, old, i) ==
    IF i > Len(s) THEN <<>>
    ELSE IF IsPrefixAt(s, old, i) THEN ReplaceFrom(s, old, i + Len(old))
    ELSE <<s[i]>> \o ReplaceFrom(s, old, i + 1)

Replace(s, old) == IF old = <<>> THEN s ELSE ReplaceFrom(s, old, 1)

\* str.split('/'): the maximal runs between separators, empty runs included
RECURSIVE SplitFrom(_, _, _)
SplitFrom(s, i, cur) ==
    IF i > Len(s) THEN <<cur>>
    ELSE IF s[i] = "/" THEN <<cur>> \o SplitFrom(s, i + 1, <<>>)
    ELSE SplitFrom(s, i + 1, Append(cur, s[i]))

Split(s) == SplitFrom(s, 1, <<>>)

\* os.path.basename: everything after the last '/'
basename(p) == LET parts == Split(p) IN parts[Len(parts)]

\* ------------------------------------------------------------ sample names
mp3 == <<".", "m", "p", "3">>
wav == <<".", "w", "a", "v">>
h5 == <<".", "h", "5">>

P_a == <<"r", "/", "c", "/", "a">> \o mp3
P_d == <<"r", "/", "d", "/", "a">> \o mp3 \o <<"x">> \o mp3
P_w == <<"r", "/", "d", "/", "w">> \o wav
P_t == <<"r", "/", "t">> \o mp3
P_top == <<"a">> \o mp3
P_missing == <<"r", "/", "c", "/", "z">> \o mp3
P_blank == <<>>

\* the audio files present on the file system
AudioFiles == {P_a, P_d, P_w, P_t, P_top}

\* the lines a manifest may hold
Lines == {P_a, P_d, P_top, P_missing, P_blank}

KnownFeatures == {"hpcp", "key_extractor", "madmom_features", "mfcc_htk"}
FeatureNames == {"hpcp", "mfcc_htk", "nope"}

\* ------------------------------------------------------------------ PROFILE
PROFILE ==
    [sample_rate |-> 44100,
     input_audio_format |-> mp3,
     downsample_audio |-> FALSE,
     downsample_factor |-> 2,
     endtime |-> None,
     features |-> <<"hpcp", "key_extractor", "madmom_features", "mfcc_htk">>]

\* the profiles compute_features is exercised with
Profiles ==
    {PROFILE} \cup
    {[PROFILE EXCEPT !.input_audio_format = f, !.downsample_audio = d,
                     !.endtime = e, !.features = fs] :
        f \in {mp3, wav}, d \in BOOLEAN, e \in {None, <<0>>, <<1>>},
        fs \in SetToSeqs(FeatureNames, MaxFeatures)}

\* what the external decoder and capabilities do with one audio file
Audios == [decode_ok : BOOLEAN, n_samples : 0..MaxSignal, feature_ok : BOOLEAN]

\* ---------------------------------------------------------- compute_features
\* the decoded signal: its length at decoding and the operations applied since
AudioFeatures(audio_file, sample_rate, audio) ==
    [audio_file |-> audio_file,
     fs |-> sample_rate,
     audio_vector |-> [n |-> audio.n_samples, fs |-> sample_rate, ops |-> <<>>]]

audio_slicer(feature, endTime) ==
    [feature.audio_vector EXCEPT !.ops = Append(@, <<"audio_slicer", endTime>>)]

resample_audio(feature, target_sample_rate) ==
    [feature.audio_vector EXCEPT !.ops = Append(@, <<"resample_audio", target_sample_rate>>),
                                 !.fs = target_sample_rate]

\* dict item assignment d[k] = v
SetItem(d, k, v) == [x \in DOMAIN d \cup {k} |-> IF x = k THEN v ELSE d[x]]

EmptyDict == [x \in {} |-> None]

\* the loop stopping one feature short
RECURSIVE FeatureLoopShort(_, _, _, _, _)
FeatureLoopShort(feature, audio, features, i, acc) ==
    IF i >= Len(features) THEN acc
    ELSE IF features[i] \notin KnownFeatures
        THEN [acc EXCEPT !.exc = "AttributeError"]
    ELSE IF ~audio.feature_ok
        THEN [acc EXCEPT !.exc = "FeatureError", !.calls = Append(@, features[i])]
    ELSE FeatureLoopShort(feature, audio, features, i + 1,
            [acc EXCEPT !.calls = Append(@, features[i]),
                        !.out_dict = SetItem(@, features[i],
                                             <<features[i], feature.audio_vector>>)])

\* for method in params['features']: out_dict[method] = getattr(feature, method)()
RECURSIVE FeatureLoop(_, _, _, _, _)
FeatureLoop(feature, audio, features, i, acc) ==
    IF i > Len(features) THEN acc
    ELSE IF features[i] \notin KnownFeatures
        THEN [acc EXCEPT !.exc = "AttributeError"]
    ELSE IF ~audio.feature_ok
        THEN [acc EXCEPT !.exc = "FeatureError", !.calls = Append(@, features[i])]
    ELSE FeatureLoop(feature, audio, features, i + 1,
            [acc EXCEPT !.calls = Append(@, features[i]),
                        !.out_dict = SetItem(@, features[i],
                                             <<features[i], feature.audio_vector>>)])

\* truth value of params['endtime']: None and 0 are false
Truthy(endtime) == endtime # None /\ endtime[1] # 0

\* the emptiness test left out
IsEmptySignalNever(feature) == FALSE

\* feature.audio_vector.shape[0] == 0
IsEmptySignal(feature) == feature.audio_vector.n = 0

\* os.path.basename(audio_path).replace(params['input_audio_format'], '')
TrackId(audio_path, input_audio_format) == Replace(basename(audio_path), input_audio_format)

\* audio_path.split('/')[-2]
Label(audio_path) == LET parts == Split(audio_path) IN parts[Len(parts) - 1]

\* the resampling applied before the trim
PreprocessResampleFirst(feature0, params) ==
    LET sliced == Truthy(params.endtime)
        feature1 == IF params.downsample_audio
                    THEN [feature0 EXCEPT !.audio_vector =
                            resample_audio(feature0, params.sample_rate \div params.downsample_factor)]
                    ELSE feature0
        feature2 == IF sliced
                    THEN [feature1 EXCEPT !.audio_vector = audio_slicer(feature1, params.endtime[1])]
                    ELSE feature1
    IN [feature |-> feature2,
        calls |-> (IF params.downsample_audio THEN <<"resample_audio">> ELSE <<>>)
                  \o (IF sliced THEN <<"audio_slicer">> ELSE <<>>)]

\* lines 60-63: the optional trim, then the optional resampling
Preprocess(feature0, params) ==
    LET sliced == Truthy(params.endtime)
        feature1 == IF sliced
                    THEN [feature0 EXCEPT !.audio_vector = audio_slicer(feature0, params.endtime[1])]
                    ELSE feature0
        feature2 == IF params.downsample_audio
                    THEN [feature1 EXCEPT !.audio_vector =
                            resample_audio(feature1, params.sample_rate \div params.downsample_factor)]
                    ELSE feature1
    IN [feature |-> feature2,
        calls |-> (IF sliced THEN <<"audio_slicer">> ELSE <<>>)
                  \o (IF params.downsample_audio THEN <<"resample_audio">> ELSE <<>>)]

compute_features(audio_path, params, audio) ==
    LET raise(e, calls) == [exc |-> e, out_dict |-> EmptyDict, calls |-> calls]
    IN
    IF ~audio.decode_ok THEN raise("DecodeError", <<>>)
    ELSE
    LET feature0 == AudioFeatures(audio_path, params.sample_rate, audio) IN
    IF IsEmptySignal(feature0) THEN raise("IOError", <<>>)
    ELSE
    LET pre == Preprocess(feature0, params)
        looped == FeatureLoop(pre.feature, audio, params.features, 1,
                              [exc |-> "OK", out_dict |-> EmptyDict, calls |-> pre.calls])
        track_id == TrackId(audio_path, params.input_audio_format)
    IN
    IF looped.exc # "OK" THEN raise(looped.exc, looped.calls)
    ELSE IF Len(Split(audio_path)) < 2 THEN raise("IndexError", looped.calls)
    ELSE [exc |-> "OK",
          out_dict |-> SetItem(SetItem(looped.out_dict, "track_id", track_id),
                               "label", Label(audio_path)),
          calls |-> looped.calls]

\* ------------------------------------------------------------------- state
VARIABLES
    txt_files,    \* manifest files on disk: name -> sequence of lines
    fs_dirs,      \* directories created so far (no trailing separator)
    artifacts,    \* files written by dd.io.save: path -> stored mapping
    _ERRORS,      \* the module-level error list
    _LOG_FILE,    \* the records sent to the module-level logger
    runs,         \* the invocations of compute_features_from_list_file
    batch,        \* the invocation of batch_feature_extractor
    cf_call,      \* the last direct call of compute_features
    profiles      \* the profile dictionaries alive: name -> mapping

vars == <<txt_files, fs_dirs, artifacts, _ERRORS, _LOG_FILE, runs, batch, cf_call, profiles>>

\* the values a clock reading may take
Instants == {0, 1}

ListTxt == <<"l", ".", "t", "x", "t">>
TmpName == <<".", "/", "t", "m", "p", "0">>

FeatureDirs == {<<"o", "/">>, <<"o">>}

WavProfile ==
    [PROFILE EXCEPT !.input_audio_format = wav, !.downsample_audio = TRUE,
                    !.endtime = <<1>>, !.features = <<"hpcp">>]

\* the profiles a caller can pass: the module default or a copy it made
RunnerProfiles == DOMAIN profiles

Procs == {1, 2}

\* ------------------------------------------------------ file system helpers
RECURSIVE StripSlashes(_)
StripSlashes(s) ==
    IF s # <<>> /\ s[Len(s)] = "/" THEN StripSlashes(SubSeq(s, 1, Len(s) - 1)) ELSE s

\* os.path.exists
Exists(path) ==
    /\ path # <<>>
    /\ \/ path \in AudioFiles
       \/ path \in DOMAIN artifacts
       \/ path \in DOMAIN txt_files
       \/ StripSlashes(path) \in fs_dirs

\* os.makedirs: the leaf directory and every missing ancestor
makedirs(path) ==
    LET leaf == StripSlashes(path)
    IN {leaf} \cup {SubSeq(leaf, 1, i - 1) : i \in {j \in 2..Len(leaf) : leaf[j] = "/"}}

\* utils.read_txt_file: the lines of the file
read_txt_file(name) == txt_files[name]

\* the manifest used unfiltered
FilterNothing(data) == data

\* [path for path in data if os.path.exists(path)]
RECURSIVE FilterExisting(_)
FilterExisting(data) ==
    IF data = <<>> THEN <<>>
    ELSE (IF Exists(Head(data)) THEN <<Head(data)>> ELSE <<>>) \o FilterExisting(Tail(data))

\* "%s%s/" % (feature_dir, work_id)
WorkDir(feature_dir, work_id) == feature_dir \o work_id \o <<"/">>

\* a file name made fresh by the number of artifacts already stored
ArtifactPathFresh(work_dir, song, params) ==
    work_dir \o TrackId(song, params.input_audio_format)
             \o [k \in 1..Cardinality(DOMAIN artifacts) |-> "_"] \o h5

\* work_dir + os.path.basename(song).replace(params['input_audio_format'], '') + '.h5'
ArtifactPath(work_dir, song, params) ==
    work_dir \o TrackId(song, params.input_audio_format) \o h5

\* the emptiness test never firing
IsEmptyCollectionNever(data) == Len(data) < 0

\* len(data) < 1
IsEmptyCollection(data) == Len(data) < 1

IdleRun ==
    [pc |-> "idle", input_txt_file |-> <<>>, feature_dir |-> <<>>, params |-> "PROFILE",
     start_time |-> 0, data |-> <<>>, i |-> 1, work_dir |-> <<>>,
     feature_dict |-> EmptyDict, bar |-> [index |-> 0, max |-> 0, finished |-> FALSE],
     n_compute |-> 0, outcome |-> <<>>, errors_before |-> 0, exists_error |-> FALSE,
     log_before |-> 0]

Quiescent(p) == runs[p].pc \in {"idle", "done", "raised"}

\* ------------------------------------------- compute_features_from_list_file
SetRun(p, r) == [runs EXCEPT ![p] = r]

BarNext(bar) == [bar EXCEPT !.index = @ + 1]

\* lines 92-102: start time, start log line, manifest read and filter,
\* empty-manifest check, progress bar construction
RunnerEnter(p, input_txt_file, feature_dir, params) ==
    /\ runs[p].pc = "idle"
    /\ input_txt_file \in DOMAIN txt_files
    /\ \E t \in Instants :
        LET data == FilterExisting(read_txt_file(input_txt_file))
            started == [runs[p] EXCEPT !.input_txt_file = input_txt_file,
                                       !.feature_dir = feature_dir,
                                       !.params = params,
                                       !.start_time = t,
                                       !.data = data,
                                       !.errors_before = Len(_ERRORS),
                                       !.log_before = Len(_LOG_FILE)]
        IN
        IF IsEmptyCollection(data)
        THEN /\ _LOG_FILE' = _LOG_FILE \o <<<<"info", "Extracting", input_txt_file>>,
                                            <<"debug", "Empty", input_txt_file>>>>
             /\ runs' = SetRun(p, [started EXCEPT !.pc = "raised", !.start_time = 0])
        ELSE /\ _LOG_FILE' = Append(_LOG_FILE, <<"info", "Extracting", input_txt_file>>)
             /\ runs' = SetRun(p, [started EXCEPT
                                     !.pc = "loop",
                                     !.bar = [index |-> 0, max |-> Len(data),
                                              finished |-> FALSE]])

RunnerCall(p, input_txt_file, feature_dir, params) ==
    /\ RunnerEnter(p, input_txt_file, feature_dir, params)
    /\ UNCHANGED <<txt_files, fs_dirs, artifacts, _ERRORS, batch, cf_call, profiles>>

\* lines 105-108: the extractor call, the output directory name and the
\* os.path.exists test
RunnerCompute(p) ==
    /\ runs[p].pc = "loop"
    /\ runs[p].i <= Len(runs[p].data)
    /\ \E audio \in Audios :
        LET r == runs[p]
            song == r.data[r.i]
            res == compute_features(song, profiles[r.params], audio)
            work_dir == WorkDir(r.feature_dir, Label(song))
            counted == [r EXCEPT !.n_compute = @ + 1]
        IN
        runs' = SetRun(p,
            IF res.exc # "OK" THEN [counted EXCEPT !.pc = "except"]
            ELSE [counted EXCEPT !.feature_dict = res.out_dict,
                                 !.work_dir = work_dir,
                                 !.pc = IF Exists(work_dir) THEN "save" ELSE "makedirs"])
    /\ UNCHANGED <<txt_files, fs_dirs, artifacts, _ERRORS, _LOG_FILE, batch, cf_call, profiles>>

\* os.makedirs outside the try block: its failure leaves the runner
RunnerMakedirsUncaught(p) ==
    /\ runs[p].pc = "makedirs"
    /\ \E ok \in BOOLEAN :
        IF ok /\ ~Exists(runs[p].work_dir)
        THEN /\ fs_dirs' = fs_dirs \cup makedirs(runs[p].work_dir)
             /\ runs' = SetRun(p, [runs[p] EXCEPT !.pc = "save"])
        ELSE /\ runs' = SetRun(p, [runs[p] EXCEPT !.pc = "raised"])
             /\ UNCHANGED fs_dirs
    /\ UNCHANGED <<txt_files, artifacts, _ERRORS, _LOG_FILE, batch, cf_call, profiles>>

\* line 109: os.makedirs fails when the directory exists by now, or when the
\* file system refuses
RunnerMakedirs(p) ==
    /\ runs[p].pc = "makedirs"
    /\ \E ok \in BOOLEAN :
        IF ok /\ ~Exists(runs[p].work_dir)
        THEN /\ fs_dirs' = fs_dirs \cup makedirs(runs[p].work_dir)
             /\ runs' = SetRun(p, [runs[p] EXCEPT !.pc = "save"])
        ELSE /\ runs' = SetRun(p, [runs[p] EXCEPT
                                     !.pc = "except",
                                     !.exists_error = Exists(runs[p].work_dir)])
             /\ UNCHANGED fs_dirs
    /\ UNCHANGED <<txt_files, artifacts, _ERRORS, _LOG_FILE, batch, cf_call, profiles>>

\* lines 111-112 and 117: dd.io.save, then progress_bar.next()
RunnerSave(p) ==
    /\ runs[p].pc = "save"
    /\ \E ok \in BOOLEAN :
        LET r == runs[p]
            song == r.data[r.i]
        IN
        IF ok
        THEN /\ artifacts' = SetItem(artifacts, ArtifactPath(r.work_dir, song, profiles[r.params]),
                                     r.feature_dict)
             /\ runs' = SetRun(p, [r EXCEPT !.pc = "loop",
                                            !.i = @ + 1,
                                            !.bar = BarNext(@),
                                            !.feature_dict = EmptyDict,
                                            !.work_dir = <<>>,
                                            !.outcome = Append(@, "saved")])
        ELSE /\ runs' = SetRun(p, [r EXCEPT !.pc = "except"])
             /\ UNCHANGED artifacts
    /\ UNCHANGED <<txt_files, fs_dirs, _ERRORS, _LOG_FILE, batch, cf_call, profiles>>

\* the list rebound to a new one instead of appended to
RunnerExceptReset(p) ==
    /\ runs[p].pc = "except"
    /\ _ERRORS' = <<runs[p].input_txt_file>>
    /\ runs' = SetRun(p, [runs[p] EXCEPT !.pc = "except2"])
    /\ UNCHANGED <<txt_files, fs_dirs, artifacts, _LOG_FILE, batch, cf_call, profiles>>

\* line 114: _ERRORS.append(input_txt_file)
RunnerExcept(p) ==
    /\ runs[p].pc = "except"
    /\ _ERRORS' = Append(_ERRORS, runs[p].input_txt_file)
    /\ runs' = SetRun(p, [runs[p] EXCEPT !.pc = "except2"])
    /\ UNCHANGED <<txt_files, fs_dirs, artifacts, _LOG_FILE, batch, cf_call, profiles>>

\* progress reported for saved files only
RunnerExcept2NoProgress(p) ==
    /\ runs[p].pc = "except2"
    /\ LET r == runs[p]
           song == r.data[r.i]
       IN
       /\ _ERRORS' = Append(_ERRORS, song)
       /\ _LOG_FILE' = Append(_LOG_FILE, <<"debug", "Error", song>>)
       /\ runs' = SetRun(p, [r EXCEPT !.pc = "loop",
                                      !.i = @ + 1,
                                      !.feature_dict = EmptyDict,
                                      !.work_dir = <<>>,
                                      !.exists_error = FALSE,
                                      !.outcome = Append(@, "failed")])
    /\ UNCHANGED <<txt_files, fs_dirs, artifacts, batch, cf_call, profiles>>

\* lines 115-117: _ERRORS.append(song), the debug line, progress_bar.next()
RunnerExcept2(p) ==
    /\ runs[p].pc = "except2"
    /\ LET r == runs[p]
           song == r.data[r.i]
       IN
       /\ _ERRORS' = Append(_ERRORS, song)
       /\ _LOG_FILE' = Append(_LOG_FILE, <<"debug", "Error", song>>)
       /\ runs' = SetRun(p, [r EXCEPT !.pc = "loop",
                                      !.i = @ + 1,
                                      !.bar = BarNext(@),
                                      !.feature_dict = EmptyDict,
                                      !.work_dir = <<>>,
                                      !.exists_error = FALSE,
                                      !.outcome = Append(@, "failed")])
    /\ UNCHANGED <<txt_files, fs_dirs, artifacts, batch, cf_call, profiles>>

\* the value formatted into the summary line: start_time - time.time()
Elapsed(start_time, now) == start_time - now

\* lines 118-119: progress_bar.finish() and the summary line; time.time() is
\* the wall clock, unrelated to the time.monotonic() reading taken at the start
RunnerFinish(p) ==
    /\ runs[p].pc = "loop"
    /\ runs[p].i > Len(runs[p].data)
    /\ \E now \in Instants :
        _LOG_FILE' = Append(_LOG_FILE,
                            <<"info", "Process finished", Elapsed(runs[p].start_time, now)>>)
    /\ runs' = SetRun(p, [runs[p] EXCEPT !.pc = "done", !.bar.finished = TRUE,
                                         !.start_time = 0])
    /\ UNCHANGED <<txt_files, fs_dirs, artifacts, _ERRORS, batch, cf_call, profiles>>

RunnerStep(p) ==
    \/ RunnerCompute(p)
    \/ RunnerMakedirs(p)
    \/ RunnerSave(p)
    \/ RunnerExcept(p)
    \/ RunnerExcept2(p)
    \/ RunnerFinish(p)

\* ----------------------------------------------------- the runner, by itself
IdleBatch == [pc |-> "idle"]
NoCall == [called |-> FALSE]

Init ==
    /\ \E lines \in SetToSeqs(Lines, MaxManifest) : txt_files = [n \in {ListTxt} |-> lines]
    /\ fs_dirs = {}
    /\ artifacts = EmptyDict
    /\ _ERRORS = <<>>
    /\ _LOG_FILE = <<>>
    /\ runs = [p \in Procs |-> IdleRun]
    /\ batch = IdleBatch
    /\ cf_call = NoCall
    /\ profiles = [PROFILE |-> PROFILE, updated_profile |-> WavProfile]

\* a caller invokes the runner once the previous invocation has returned; a
\* later invocation repeats the arguments of the first
UserCall(p) ==
    /\ \A q \in Procs : Quiescent(q)
    /\ \A q \in Procs : q < p => runs[q].pc # "idle"
    /\ \E feature_dir \in FeatureDirs, params \in RunnerProfiles :
        /\ \A q \in Procs : runs[q].pc # "idle" =>
                /\ feature_dir = runs[q].feature_dir
                /\ params = runs[q].params
        /\ RunnerCall(p, ListTxt, feature_dir, params)

Next == \E p \in Procs : UserCall(p) \/ RunnerStep(p)

Spec == Init /\ [][Next]_vars

\* ------------------------------------------ the runner, invoked concurrently
\* lines 143-145 with more than one task, or any caller with threads: an
\* invocation starts while another one is still running, on the same manifest
\* and the same feature_dir
ConcLines == {P_a, P_d, P_missing}

InitConc ==
    /\ \E lines \in SetToSeqs(ConcLines, MaxManifest) : txt_files = [n \in {ListTxt} |-> lines]
    /\ fs_dirs = {}
    /\ artifacts = EmptyDict
    /\ _ERRORS = <<>>
    /\ _LOG_FILE = <<>>
    /\ runs = [p \in Procs |-> IdleRun]
    /\ batch = IdleBatch
    /\ cf_call = NoCall
    /\ profiles = [PROFILE |-> PROFILE, updated_profile |-> WavProfile]

ConcCall(p) ==
    /\ \A q \in Procs : q < p => runs[q].pc # "idle"
    /\ \E feature_dir \in FeatureDirs, params \in RunnerProfiles :
        /\ \A q \in Procs : runs[q].pc # "idle" =>
                /\ feature_dir = runs[q].feature_dir
                /\ params = runs[q].params
        /\ RunnerCall(p, ListTxt, feature_dir, params)

NextConc == \E p \in Procs : ConcCall(p) \/ RunnerStep(p)

SpecConc == InitConc /\ [][NextConc]_vars

\* ----------------------------------------------------- compute_features alone
CallComputeFeatures ==
    /\ ~cf_call.called
    /\ \E audio_path \in AudioFiles, params \in Profiles, audio \in Audios :
        cf_call' = [called |-> TRUE, audio_path |-> audio_path, params |-> params,
                    audio |-> audio, result |-> compute_features(audio_path, params, audio)]
    /\ UNCHANGED <<txt_files, fs_dirs, artifacts, _ERRORS, _LOG_FILE, runs, batch, profiles>>

InitCF ==
    /\ txt_files = EmptyDict
    /\ fs_dirs = {}
    /\ artifacts = EmptyDict
    /\ _ERRORS = <<>>
    /\ _LOG_FILE = <<>>
    /\ runs = [p \in Procs |-> IdleRun]
    /\ batch = IdleBatch
    /\ cf_call = NoCall
    /\ profiles = [PROFILE |-> PROFILE]

NextCF == CallComputeFeatures

SpecCF == InitCF /\ [][NextCF]_vars

\* ---------------------------------------------------- batch_feature_extractor
AudioDirs == {<<"r">>, <<"e">>}

NWorkers == {-1} \cup (0..MaxWorkers)

\* os.path.dirname of a path written by os.path.join(path, name)
dirname(p) == SubSeq(p, 1, Len(p) - Len(basename(p)) - 1)

\* every file name passing the test
IsAnyFile(name) == TRUE

\* name.endswith(".mp3")
IsMp3(name) == EndsWith(name, mp3)

\* os.path.join(path, name)
join(path, name) ==
    IF path # <<>> /\ path[Len(path)] = "/" THEN path \o name ELSE path \o <<"/">> \o name

\* os.walk(audio_dir): the (path, name) pairs of the files at any depth
WalkEntries(audio_dir) ==
    {<<dirname(f), basename(f)>> :
        f \in {g \in AudioFiles : IsPrefixAt(g, audio_dir \o <<"/">>, 1)}}

\* lines 132-134: the paths written to the temporary manifest
WalkFiles(audio_dir) ==
    {join(e[1], e[2]) : e \in {x \in WalkEntries(audio_dir) : IsMp3(x[2])}}

\* os.walk is top-down: a directory's files are listed together, before the
\* files of its subdirectories; the order inside a listing is the file system's
WalkOrders(audio_dir) ==
    LET files == WalkFiles(audio_dir)
        n == Cardinality(files)
    IN {s \in [1..n -> files] :
            /\ \A i, j \in 1..n : i # j => s[i] # s[j]
            /\ \A i, j \in 1..n : i < j =>
                 /\ ~(/\ dirname(s[j]) # dirname(s[i])
                      /\ IsPrefixAt(dirname(s[i]), dirname(s[j]), 1))
                 /\ dirname(s[i]) = dirname(s[j]) =>
                        \A k \in i..j : dirname(s[k]) = dirname(s[i])}

\* a pattern that matches no file
GlobNothing(name, files) == <<>>

\* glob.glob(temp.name): the name has no pattern character, so the result is
\* the file itself when it exists
Glob(name, files) == IF name \in files THEN <<name>> ELSE <<>>

\* the feature lists given on the command line
FeatureLists == {<<"hpcp">>, <<"hpcp", "nope">>}

\* the default dictionary itself changed, no copy taken
MainAlias ==
    /\ batch.pc = "idle"
    /\ "updated_profile" \notin DOMAIN profiles
    /\ \E feature_list \in FeatureLists :
        LET updated_profile == [profiles["PROFILE"] EXCEPT !.features = feature_list]
        IN profiles' = [PROFILE |-> updated_profile, updated_profile |-> updated_profile]
    /\ UNCHANGED <<txt_files, fs_dirs, artifacts, _ERRORS, _LOG_FILE, runs, batch, cf_call>>

\* lines 178-180: PROFILE.copy(), the 'features' key deleted from the copy and
\* set to the requested list
MainCopy ==
    /\ batch.pc = "idle"
    /\ "updated_profile" \notin DOMAIN profiles
    /\ \E feature_list \in FeatureLists :
        LET updated_profile == [profiles["PROFILE"] EXCEPT !.features = feature_list]
        IN profiles' = [PROFILE |-> profiles["PROFILE"], updated_profile |-> updated_profile]
    /\ UNCHANGED <<txt_files, fs_dirs, artifacts, _ERRORS, _LOG_FILE, runs, batch, cf_call>>

\* lines 128-141: the temporary manifest, the walk, the argument list
BatchCall ==
    /\ batch.pc = "idle"
    /\ \E audio_dir \in AudioDirs, feature_dir \in FeatureDirs, n_workers \in NWorkers,
          extractor_profile \in RunnerProfiles :
      \E walked \in WalkOrders(audio_dir) :
        LET written == SetItem(txt_files, TmpName, walked)
            collection_files == Glob(TmpName, DOMAIN written)
            args == [i \in 1..Len(collection_files) |->
                        <<collection_files[i], feature_dir, extractor_profile>>]
        IN
        /\ txt_files' = written
        /\ batch' = [pc |-> "parallel", audio_dir |-> audio_dir, feature_dir |-> feature_dir,
                     n_workers |-> n_workers, extractor_profile |-> extractor_profile,
                     args |-> args, started |-> <<>>, printed |-> <<"Computing">>]
    /\ UNCHANGED <<fs_dirs, artifacts, _ERRORS, _LOG_FILE, runs, cf_call, profiles>>

\* the tasks Parallel has handed to a worker and that have not returned
Running == {k \in DOMAIN batch.started : ~Quiescent(batch.started[k])}

\* n_jobs = -1 uses every processing unit: no cap below the number of tasks
JobCap(n_workers, n_tasks) == IF n_workers < 0 THEN n_tasks ELSE n_workers

\* line 144-145: Parallel hands the next task to a free worker
BatchDispatch ==
    /\ batch.pc = "parallel"
    /\ batch.n_workers # 0
    /\ Len(batch.started) < Len(batch.args)
    /\ Cardinality(Running) < JobCap(batch.n_workers, Len(batch.args))
    /\ \A k \in DOMAIN batch.started : runs[batch.started[k]].pc # "raised"
    /\ \E p \in Procs :
        /\ \A q \in Procs : q < p => runs[q].pc # "idle"
        /\ LET a == batch.args[Len(batch.started) + 1]
           IN RunnerEnter(p, a[1], a[2], a[3])
        /\ batch' = [batch EXCEPT !.started = Append(@, p)]
    /\ UNCHANGED <<txt_files, fs_dirs, artifacts, _ERRORS, cf_call, profiles>>

\* no handler around the dispatch: its exception leaves the orchestrator
BatchJoinUncaught ==
    /\ batch.pc = "parallel"
    /\ Running = {}
    /\ LET failed == \/ batch.n_workers = 0
                     \/ \E k \in DOMAIN batch.started : runs[batch.started[k]].pc = "raised"
       IN
       /\ failed \/ Len(batch.started) = Len(batch.args)
       /\ batch' = [batch EXCEPT !.pc = IF failed THEN "raised" ELSE "done"]
    /\ UNCHANGED <<txt_files, fs_dirs, artifacts, _ERRORS, _LOG_FILE, runs, cf_call, profiles>>

\* lines 143-147: Parallel returns when every task has, or raises; the bare
\* except prints the skip notice
BatchJoin ==
    /\ batch.pc = "parallel"
    /\ Running = {}
    /\ LET failed == \/ batch.n_workers = 0
                     \/ \E k \in DOMAIN batch.started : runs[batch.started[k]].pc = "raised"
       IN
       /\ failed \/ Len(batch.started) = Len(batch.args)
       /\ batch' = [batch EXCEPT !.pc = "done",
                                 !.printed = IF failed THEN Append(@, "Skipping") ELSE @]
    /\ UNCHANGED <<txt_files, fs_dirs, artifacts, _ERRORS, _LOG_FILE, runs, cf_call, profiles>>

NextBatch ==
    \/ MainCopy
    \/ BatchCall
    \/ BatchDispatch
    \/ BatchJoin
    \/ \E p \in Procs : RunnerStep(p)

SpecBatch == InitCF /\ [][NextBatch]_vars

\* =================================================================== claims
\* the number of manifest lines naming an existing audio file
NExisting(lines) == Cardinality({i \in DOMAIN lines : lines[i] \in AudioFiles})

Manifest(p) == txt_files[runs[p].input_txt_file]

SavedBy(p) == {i \in DOMAIN runs[p].outcome : runs[p].outcome[i] = "saved"}

FailedBy(p) == {i \in DOMAIN runs[p].outcome : runs[p].outcome[i] = "failed"}

\* where the runner wrote the artifact of its i-th path
WrittenPath(p, i) ==
    LET r == runs[p]
    IN ArtifactPath(WorkDir(r.feature_dir, Label(r.data[i])), r.data[i], profiles[r.params])

AllWrittenPaths == UNION {{WrittenPath(p, i) : i \in SavedBy(p)} : p \in Procs}

\* the name with the suffix taken off its end, once, when it ends in it
StripSuffix(name, suffix) ==
    IF suffix # <<>> /\ EndsWith(name, suffix)
    THEN SubSeq(name, 1, Len(name) - Len(suffix))
    ELSE name

\* the name of the directory that holds the file
ParentDirName(path) == basename(dirname(path))

\* <feature_dir>/<clique_label>/
LayoutDir(feature_dir, path) ==
    StripSlashes(feature_dir) \o <<"/">> \o ParentDirName(path) \o <<"/">>

IsCapabilityCall(c) == c \notin {"audio_slicer", "resample_audio"}

CapabilityCalls(calls) == SelectSeq(calls, IsCapabilityCall)

IsUnique(seq) == \A i, j \in DOMAIN seq : i # j => seq[i] # seq[j]

HasParentDir(path) == Len(Split(path)) >= 2

\* C1: per-file failures never leave the runner: an invocation ends raised
\* only on a manifest without an existing path; a finished invocation has
\* attempted every existing path, each attempt ended saved or failed, and the
\* artifacts on disk are exactly those of the attempts that did not fail.
C1_PerFileFailuresContained ==
    /\ \A p \in Procs :
        /\ runs[p].pc = "raised" => NExisting(Manifest(p)) = 0
        /\ runs[p].pc = "done" =>
             /\ runs[p].n_compute = NExisting(Manifest(p))
             /\ SavedBy(p) \cup FailedBy(p) = 1..NExisting(Manifest(p))
    /\ DOMAIN artifacts = AllWrittenPaths

\* a finished invocation in which one path failed and another was saved
C1_Witness ==
    \E p \in Procs :
        /\ runs[p].pc = "done"
        /\ SavedBy(p) # {}
        /\ FailedBy(p) # {}
        /\ \A i \in SavedBy(p) : WrittenPath(p, i) \in DOMAIN artifacts

\* C2: a finished invocation with F failed paths has made the ErrorLog
\* exactly F entries longer than it was when the invocation started.
C2_OneEntryPerFailure ==
    \A p \in Procs :
        runs[p].pc = "done" =>
            Len(_ERRORS) - runs[p].errors_before = Cardinality(FailedBy(p))

\* C3: with N >= 1 existing and K missing lines the extractor is invoked N
\* times, the progress bar is created with total N and advanced N times, the
\* invocation does not raise, and no ErrorLog element names a missing line.
C3_MissingLinesSkipped ==
    /\ \A p \in Procs :
        LET N == NExisting(Manifest(p))
        IN runs[p].pc # "idle" /\ N >= 1 =>
             /\ runs[p].pc # "raised"
             /\ runs[p].bar.max = N
             /\ runs[p].n_compute <= N
             /\ runs[p].pc = "done" =>
                  /\ runs[p].n_compute = N
                  /\ runs[p].bar.index = N
    /\ \A k \in DOMAIN _ERRORS : _ERRORS[k] \in AudioFiles \cup {ListTxt}

\* a finished invocation over a manifest with existing and missing lines, one
\* of the existing ones having failed
C3_Witness ==
    \E p \in Procs :
        /\ runs[p].pc = "done"
        /\ NExisting(Manifest(p)) >= 1
        /\ Len(Manifest(p)) > NExisting(Manifest(p))
        /\ runs[p].bar.index = NExisting(Manifest(p))
        /\ FailedBy(p) # {}

\* C4: on a manifest without an existing path the invocation raises, having
\* computed nothing, written nothing and appended nothing to the ErrorLog.
C4_EmptyManifestRaises ==
    \A p \in Procs :
        runs[p].pc # "idle" /\ NExisting(Manifest(p)) = 0 =>
            /\ runs[p].pc = "raised"
            /\ runs[p].n_compute = 0
            /\ runs[p].outcome = <<>>
            /\ DOMAIN artifacts = {}
            /\ fs_dirs = {}
            /\ _ERRORS = <<>>

\* an invocation that raised on a manifest holding only missing lines
C4_Witness ==
    \E p \in Procs :
        /\ runs[p].pc = "raised"
        /\ Len(Manifest(p)) >= 2
        /\ P_missing \in Range(Manifest(p))

C6_ArtifactLayout ==
    \A p \in Procs : \A i \in SavedBy(p) :
        LET r == runs[p]
            dir == LayoutDir(r.feature_dir, r.data[i])
        IN /\ dir \o TrackId(r.data[i], profiles[r.params].input_audio_format) \o h5 \in DOMAIN artifacts
           /\ StripSlashes(dir) \in fs_dirs

\* C7: the elapsed time of every summary line is not negative.
C7_ElapsedNotNegative ==
    \A k \in DOMAIN _LOG_FILE :
        _LOG_FILE[k][2] = "Process finished" => _LOG_FILE[k][3] >= 0

\* C8: an input that decodes to a zero-length signal fails with the
\* empty-or-invalid-audio error before trimming, resampling or any capability
\* is invoked.
C8_EmptySignalRejectedFirst ==
    cf_call.called /\ cf_call.audio.decode_ok /\ cf_call.audio.n_samples = 0 =>
        /\ cf_call.result.exc = "IOError"
        /\ cf_call.result.calls = <<>>

\* a zero-length input under a profile that asks for a trim, a resampling and
\* features
C8_Witness ==
    /\ cf_call.called
    /\ cf_call.audio.decode_ok
    /\ cf_call.audio.n_samples = 0
    /\ Truthy(cf_call.params.endtime)
    /\ cf_call.params.downsample_audio
    /\ cf_call.params.features # <<>>
    /\ cf_call.result.exc = "IOError"

\* C9: the returned track_id is the file name with the configured suffix
\* stripped from its end and nothing else removed, and the label is the name
\* of the parent directory.
C9_TrackIdStripsSuffix ==
    cf_call.called /\ cf_call.result.exc = "OK" =>
        /\ cf_call.result.out_dict["track_id"] =
               StripSuffix(basename(cf_call.audio_path), cf_call.params.input_audio_format)
        /\ cf_call.result.out_dict["label"] = ParentDirName(cf_call.audio_path)

\* C10: on a valid audio input and a non-empty list of unique known feature
\* names, each named capability is invoked exactly once in the declared
\* order, and, the file lying in a clique directory as the layout requires,
\* the call returns a mapping whose keys are exactly the feature names plus
\* track_id and label.
C10_ExactKeysAndCalls ==
    (/\ cf_call.called
     /\ cf_call.audio.decode_ok
     /\ cf_call.audio.n_samples > 0
     /\ cf_call.audio.feature_ok
     /\ cf_call.params.features # <<>>
     /\ IsUnique(cf_call.params.features)
     /\ Range(cf_call.params.features) \subseteq KnownFeatures)
    => /\ CapabilityCalls(cf_call.result.calls) = cf_call.params.features
       /\ HasParentDir(cf_call.audio_path) =>
            /\ cf_call.result.exc = "OK"
            /\ DOMAIN cf_call.result.out_dict =
                   Range(cf_call.params.features) \cup {"track_id", "label"}

\* a valid input with several features, trimmed and resampled first
C10_Witness ==
    /\ cf_call.called
    /\ cf_call.result.exc = "OK"
    /\ Len(cf_call.params.features) >= 2
    /\ IsUnique(cf_call.params.features)
    /\ Len(cf_call.result.calls) > Len(cf_call.params.features)
    /\ Cardinality(DOMAIN cf_call.result.out_dict) = Len(cf_call.params.features) + 2

\* the part of a call trace before the first capability
RECURSIVE StepsBefore(_)
StepsBefore(calls) ==
    IF calls = <<>> \/ IsCapabilityCall(Head(calls)) THEN <<>>
    ELSE <<Head(calls)>> \o StepsBefore(Tail(calls))

\* C11: past the emptiness check, the steps run before the first capability
\* are the trim when endtime is set (a value that is true), then the
\* resampling when downsample_audio is set, and no other; every capability
\* sees the signal with the trim applied first and the resampling, to
\* sample_rate / downsample_factor, applied to the trimmed signal.
C11_TrimThenResample ==
    (/\ cf_call.called
     /\ cf_call.audio.decode_ok
     /\ cf_call.audio.n_samples > 0)
    => LET ps == cf_call.params
           trim == ps.endtime # None /\ ps.endtime[1] # 0
           rate == ps.sample_rate \div ps.downsample_factor
           steps == (IF trim THEN <<"audio_slicer">> ELSE <<>>)
                    \o (IF ps.downsample_audio THEN <<"resample_audio">> ELSE <<>>)
           ops == (IF trim THEN <<<<"audio_slicer", ps.endtime[1]>>>> ELSE <<>>)
                  \o (IF ps.downsample_audio THEN <<<<"resample_audio", rate>>>> ELSE <<>>)
       IN /\ StepsBefore(cf_call.result.calls) = steps
          /\ cf_call.result.calls = steps \o CapabilityCalls(cf_call.result.calls)
          /\ \A k \in DOMAIN cf_call.result.out_dict \ {"track_id", "label"} :
                /\ cf_call.result.out_dict[k][2].ops = ops
                /\ cf_call.result.out_dict[k][2].fs =
                       IF ps.downsample_audio THEN rate ELSE ps.sample_rate

\* a call that returned features computed on a trimmed and resampled signal
C11_Witness ==
    /\ cf_call.called
    /\ cf_call.result.exc = "OK"
    /\ cf_call.params.endtime = <<1>>
    /\ cf_call.params.downsample_audio
    /\ cf_call.params.features # <<>>
    /\ cf_call.result.calls[1] = "audio_slicer"
    /\ cf_call.result.calls[2] = "resample_audio"

\* C12: the orchestrator produces exactly one manifest; it holds, one per
\* line and each exactly once, the path of every file at any depth under
\* audio_dir whose name ends in ".mp3", and no other path.
C12_ManifestIsTheMp3Files ==
    batch.pc # "idle" =>
        /\ DOMAIN txt_files = {TmpName}
        /\ IsUnique(txt_files[TmpName])
        /\ Range(txt_files[TmpName]) =
               {f \in AudioFiles : /\ IsPrefixAt(f, batch.audio_dir \o <<"/">>, 1)
                                   /\ EndsWith(f, mp3)}

\* a manifest holding a file directly under audio_dir and files one level down
C12_Witness ==
    /\ batch.pc # "idle"
    /\ TmpName \in DOMAIN txt_files
    /\ Len(txt_files[TmpName]) = 3
    /\ P_t \in Range(txt_files[TmpName])
    /\ P_a \in Range(txt_files[TmpName])

\* whether the dispatch of the orchestrator's run raised
DispatchRaised ==
    \/ batch.n_workers = 0
    \/ \E k \in DOMAIN batch.started : runs[batch.started[k]].pc = "raised"

SkipNotices == {i \in DOMAIN batch.printed : batch.printed[i] = "Skipping"}

\* C13: an exception of the parallel dispatch, the runner's empty-manifest
\* error included, never leaves the orchestrator: the run returns, having
\* printed exactly one skip notice when the dispatch raised and none otherwise.
C13_DispatchFailureCaught ==
    /\ batch.pc # "raised"
    /\ batch.pc = "done" =>
         /\ Cardinality(SkipNotices) = IF DispatchRaised THEN 1 ELSE 0
         /\ batch.n_workers # 0 /\ txt_files[TmpName] = <<>> =>
              /\ runs[batch.started[1]].pc = "raised"
              /\ DispatchRaised

\* a returned run over a directory without .mp3 file, whose runner raised
C13_Witness ==
    /\ batch.pc = "done"
    /\ batch.audio_dir = <<"e">>
    /\ batch.n_workers >= 1
    /\ Len(batch.started) = 1
    /\ runs[batch.started[1]].pc = "raised"
    /\ SkipNotices # {}

\* the clique and track id under which a run saved its artifacts
SavedKeys(p) ==
    {<<Label(runs[p].data[i]), TrackId(runs[p].data[i], profiles[runs[p].params].input_audio_format)>> :
        i \in SavedBy(p)}

SameRun(p, q) ==
    /\ runs[p].input_txt_file = runs[q].input_txt_file
    /\ runs[p].feature_dir = runs[q].feature_dir
    /\ runs[p].params = runs[q].params
    /\ runs[p].outcome = runs[q].outcome

\* C14: after one run the artifacts are one per clique and track id saved;
\* after a second run of the same manifest, feature_dir and profile with the
\* same per-file outcomes they are the same number: no file is added.
C14_RerunAddsNoArtifact ==
    /\ runs[1].pc = "done" /\ runs[2].pc = "idle" =>
         Cardinality(DOMAIN artifacts) = Cardinality(SavedKeys(1))
    /\ runs[1].pc = "done" /\ runs[2].pc = "done" /\ SameRun(1, 2) =>
         /\ Cardinality(DOMAIN artifacts) = Cardinality(SavedKeys(1))
         /\ DOMAIN artifacts = {WrittenPath(1, i) : i \in SavedBy(1)}

\* two finished runs with the same outcomes, a saved path among them
C14_Witness ==
    /\ runs[1].pc = "done"
    /\ runs[2].pc = "done"
    /\ SameRun(1, 2)
    /\ Cardinality(SavedKeys(1)) >= 2
    /\ Cardinality(DOMAIN artifacts) = 2

\* C15: every step leaves the ErrorLog as it was or longer, the old list
\* being a prefix of the new one.
C15_ErrorLogAppendOnly ==
    [][/\ Len(_ERRORS) <= Len(_ERRORS')
       /\ SubSeq(_ERRORS', 1, Len(_ERRORS)) = _ERRORS]_vars

\* a second run that found entries of the first and added its own
C15_Witness ==
    /\ runs[2].pc = "done"
    /\ runs[2].errors_before > 0
    /\ Len(_ERRORS) > runs[2].errors_before

\* C16: no step changes a profile dictionary that exists: the shared default
\* keeps the value of its definition, its features list included, and a
\* profile passed to the orchestrator, the runner or the extractor is
\* afterwards what it was.
C16_ProfilesNotMutated ==
    [][/\ DOMAIN profiles \subseteq DOMAIN profiles'
       /\ \A k \in DOMAIN profiles : profiles'[k] = profiles[k]
       /\ profiles'["PROFILE"] = PROFILE]_vars

\* an orchestrator run on a modified copy, returned after its runner saved
C16_Witness ==
    /\ batch.pc = "done"
    /\ batch.extractor_profile = "updated_profile"
    /\ profiles["updated_profile"] # PROFILE
    /\ profiles["PROFILE"] = PROFILE
    /\ \E p \in Procs : runs[p].pc = "done" /\ SavedBy(p) # {}

\* C17: when invocations sharing a feature_dir run concurrently, a file whose
\* extraction succeeded is never recorded as a failure because the directory
\* of its clique appeared between the os.path.exists test and os.makedirs,
\* and every file counted as saved has its artifact.
C17_ConcurrentDirCreationSafe ==
    \A p \in Procs :
        /\ ~runs[p].exists_error
        /\ \A i \in SavedBy(p) : WrittenPath(p, i) \in DOMAIN artifacts

\* C18: with concurrent invocations the error list stays a sequence of
\* (manifest, failing path) pairs: outside an invocation's two appends, every
\* odd entry is a manifest name and the entry after it a path of that manifest.
C18_ErrorLogWellFormed ==
    (\A p \in Procs : runs[p].pc # "except2") =>
        /\ Len(_ERRORS) % 2 = 0
        /\ \A k \in DOMAIN _ERRORS :
              IF k % 2 = 1 THEN _ERRORS[k] \in DOMAIN txt_files
                           ELSE _ERRORS[k] \in AudioFiles

\* the log lines written during invocation p: from its first line up to the
\* first line of the invocation started after it
RunLog(p) ==
    LET later == {runs[q].log_before : q \in {q \in Procs : /\ runs[q].pc # "idle"
                                                            /\ runs[q].log_before > runs[p].log_before}}
        last == IF later = {} THEN Len(_LOG_FILE)
                ELSE CHOOSE n \in later : \A m \in later : n <= m
    IN SubSeq(_LOG_FILE, runs[p].log_before + 1, last)

\* the files of invocation p whose attempt failed, in the order attempted
FailedSongs(p) ==
    LET IsFailed(k) == runs[p].outcome[k] = "failed"
        idx == SelectSeq([k \in 1..Len(runs[p].outcome) |-> k], IsFailed)
    IN [j \in 1..Len(idx) |-> runs[p].data[idx[j]]]

\* C19: in an invocation on a manifest with an existing path, the start line
\* comes first; the existing paths are attempted one at a time in manifest
\* order, each attempt followed by exactly one progress report before the next
\* starts, whether it saved or failed; the summary line comes last and is the
\* run's final line however many files failed.
C19_EventOrder ==
    \A p \in Procs :
        /\ runs[p].pc = "raised" => FilterExisting(Manifest(p)) = <<>>
        /\ runs[p].pc \notin {"idle", "raised"} =>
            LET r == runs[p]
                n == Len(r.outcome)
                log == RunLog(p)
                failed == FailedSongs(p)
                done == r.pc = "done"
            IN
            /\ r.data = FilterExisting(Manifest(p))
            /\ Len(r.data) >= 1
            /\ r.i = n + 1
            /\ r.bar.index = n
            /\ r.n_compute = IF r.pc \in {"loop", "done"} THEN n ELSE n + 1
            /\ done => n = Len(r.data) /\ r.bar.finished
            /\ Len(log) = 1 + Len(failed) + (IF done THEN 1 ELSE 0)
            /\ log[1] = <<"info", "Extracting", r.input_txt_file>>
            /\ \A k \in 1..Len(failed) :
                  /\ log[k + 1][1] = "debug"
                  /\ log[k + 1][2] = "Error"
                  /\ log[k + 1][3] = failed[k]
            /\ done => log[Len(log)][2] = "Process finished"

\* a finished run of two files, the first failed and the second saved
C19_Witness ==
    \E p \in Procs :
        /\ runs[p].pc = "done"
        /\ runs[p].outcome = <<"failed", "saved">>
        /\ runs[p].bar.index = 2

\* C20: every artifact lies under the identity it carries: the directory that
\* holds it is named by the stored 'label' and its file name without '.h5' is
\* the stored 'track_id'.
C20_StoredUnderOwnIdentity ==
    \A path \in DOMAIN artifacts :
        /\ ParentDirName(path) = artifacts[path]["label"]
        /\ StripSuffix(basename(path), h5) = artifacts[path]["track_id"]

====
